---- MODULE Spec2Model ----
(***************************************************************************)
(* Verification model of src/src/utils/nextIntlSrcParser.ts: the two-pass  *)
(* extraction of next-intl translation keys.                               *)
(*                                                                         *)
(* Strings are sequences of UTF-16 code units (naturals), so that template *)
(* concatenation and the ordinal comparison of the final sort are          *)
(* computed, not assumed.  Identifiers are TLA+ strings.                   *)
(*                                                                         *)
(* A source file is the pre-order sequence of the syntax nodes the walk    *)
(* reacts to.  Function-like nodes are bracketed: "fn" / "arrow" opens one,*)
(* "end" closes the innermost open one, and a function still open at the   *)
(* end of the sequence extends to the end of the file.                     *)
(*                                                                         *)
(* Input class: no `// t('...')` leading comments (l.434-470 then emit     *)
(* nothing), and no identifier is spelled useTranslations/getTranslations. *)
(***************************************************************************)
EXTENDS Integers, Sequences, FiniteSets, TLC

VARIABLES filesPaths, pc, globalFunctionsWithTParam, fileIdx, pos,
          namespaces, scopes, foundKeys, collected, result

vars == <<filesPaths, pc, globalFunctionsWithTParam, fileIdx, pos,
          namespaces, scopes, foundKeys, collected, result>>

\* ------------------------------------------------------------------------
\* Bounds of the checked input class
\* ------------------------------------------------------------------------
MaxStmts == 4
MaxShapeStmts == 4
MaxFiles == 2
MaxHelperStmts == 5
MaxAcquireStmts == 3
MaxInlineStmts == 3

\* ------------------------------------------------------------------------
\* Strings
\* ------------------------------------------------------------------------
DOT == 46
EmptyString == << >>
Undefined == [undefined |-> TRUE]

\* JS truthiness of a string: '' is falsy
Truthy(s) == Len(s) > 0

Min2(a, b) == IF a < b THEN a ELSE b

\* JS `a > b` on strings: comparison by UTF-16 code units
StrGT(a, b) ==
  LET n == Min2(Len(a), Len(b))
      diff == {i \in 1..n : a[i] # b[i]}
  IN IF diff = {}
     THEN Len(a) > Len(b)
     ELSE LET d == CHOOSE i \in diff : \A j \in diff : i <= j
          IN a[d] > b[d]

\* faulty variant: the separator is written also under an empty namespace
QualifiedKey_AlwaysDotted(namespaceName, keyName) ==
  namespaceName \o <<DOT>> \o keyName

\* `${namespace}.${key}` when the namespace is truthy, else the key alone
QualifiedKey(namespaceName, keyName) ==
  IF Truthy(namespaceName) THEN namespaceName \o <<DOT>> \o keyName ELSE keyName

\* ------------------------------------------------------------------------
\* Syntax nodes
\* ------------------------------------------------------------------------
Absent == [type |-> "absent"]
StringLiteral(s) == [type |-> "string", text |-> s]
\* an identifier carries a name (a TLA+ string), a string literal a text (code
\* units): the two never share a field
Identifier(n) == [type |-> "ident", name |-> n]
TemplateExpression == [type |-> "template"]
UseTranslationsCall(a) == [type |-> "useTranslations", arg |-> a]
ObjectLiteral(props) == [type |-> "object", properties |-> props]
PropertyAssignment(n, init) == [kind |-> "assignment", name |-> n, initializer |-> init]
ShorthandProperty(n) == [kind |-> "shorthand", name |-> n]

FunctionNode == [kind |-> "fn"]
EndNode == [kind |-> "end"]
ArrowDeclaration(n, p, typed, body) ==
  [kind |-> "arrow", name |-> n, param |-> p, typed |-> typed, body |-> body]
Acquire(form, v, a) == [kind |-> "acquire", form |-> form, variable |-> v, arg |-> a]
Call(shape, callee, a) == [kind |-> "call", shape |-> shape, callee |-> callee, arg |-> a]
Inline(shape, nsArg, keyArg) ==
  [kind |-> "inline", shape |-> shape, nsArg |-> nsArg, keyArg |-> keyArg]

IsFunctionLike(node) == node.kind \in {"fn", "arrow"}

\* position of the "end" closing the function opened at p (Len(file)+1 when
\* the function extends to the end of the file)
RECURSIVE MatchFrom(_, _, _)
MatchFrom(file, q, depth) ==
  IF q > Len(file) THEN q
  ELSE IF file[q].kind = "end"
       THEN IF depth = 0 THEN q ELSE MatchFrom(file, q + 1, depth - 1)
       ELSE IF IsFunctionLike(file[q])
            THEN MatchFrom(file, q + 1, depth + 1)
            ELSE MatchFrom(file, q + 1, depth)

BodyEnd(file, p) == MatchFrom(file, p + 1, 0)

\* nesting depth of function-like nodes after the first q nodes of the file
RECURSIVE DepthAfter(_, _)
DepthAfter(file, q) ==
  IF q = 0 THEN 0
  ELSE IF file[q].kind = "end" THEN DepthAfter(file, q - 1) - 1
       ELSE IF IsFunctionLike(file[q]) THEN DepthAfter(file, q - 1) + 1
            ELSE DepthAfter(file, q - 1)

\* a sequence of nodes is the pre-order of a syntax tree: no "end" without an
\* open function, and an arrow whose body is a bare call expression holds
\* exactly that call
WellFormed(file) ==
  /\ \A q \in 1..Len(file) : DepthAfter(file, q) >= 0
  /\ \A q \in 1..Len(file) :
       (file[q].kind = "arrow" /\ file[q].body = "call") =>
          /\ q + 1 <= Len(file)
          /\ file[q + 1].kind = "call"
          /\ (q + 2 <= Len(file) => file[q + 2].kind = "end")

\* ------------------------------------------------------------------------
\* Pass 1: collectFunctionsWithTParam
\* ------------------------------------------------------------------------
\* visitFunctionBody over the nodes lo..hi: every call whose callee is the
\* parameter and whose first argument is a string literal
RECURSIVE visitFunctionBody(_, _, _, _)
visitFunctionBody(file, lo, hi, paramName) ==
  IF lo > hi THEN << >>
  ELSE LET node == file[lo]
           here == IF /\ node.kind = "call"
                      /\ node.shape = "direct"
                      /\ node.callee = paramName
                      /\ node.arg.type = "string"
                   THEN <<node.arg.text>>
                   ELSE << >>
       IN here \o visitFunctionBody(file, lo + 1, hi, paramName)

\* ts.forEachChild(node.initializer.body, visitFunctionBody): the scan starts
\* at the children of the body, so a body that is itself the call expression
\* is not examined (its children are an identifier and a literal)
BodyKeys(file, p) ==
  IF file[p].body = "call"
  THEN << >>
  ELSE visitFunctionBody(file, p + 1, BodyEnd(file, p) - 1, file[p].param)

\* the record pushed for the variable declaration at p, if it qualifies
TrackedAt(file, p) ==
  LET node == file[p]
  IN IF node.kind = "arrow" /\ node.typed /\ Len(BodyKeys(file, p)) > 0
     THEN <<[functionName |-> node.name, paramName |-> node.param,
             keysUsed |-> BodyKeys(file, p)]>>
     ELSE << >>

RECURSIVE CollectFrom(_, _)
CollectFrom(file, p) ==
  IF p > Len(file) THEN << >>
  ELSE TrackedAt(file, p) \o CollectFrom(file, p + 1)

collectFunctionsWithTParam(registry, file) == registry \o CollectFrom(file, 1)

\* ------------------------------------------------------------------------
\* Pass 2: getKeys
\* ------------------------------------------------------------------------
Frame(name, variable) == [name |-> name, variable |-> variable, dynamic |-> FALSE]

Last(s, n) == SubSeq(s, Len(s) - n + 1, Len(s))

\* null is modelled by the empty sequence (a slice of a non-empty stack taken
\* with range >= 1 is never empty)
Null == << >>

getCurrentNamespaces(stack, range) ==
  IF Len(stack) > 0 THEN Last(stack, range) ELSE Null

\* faulty variant: the stack is searched from the bottom (no reverse())
getCurrentNamespaceForIdentifier_Oldest(stack, name) ==
  LET matching == {i \in 1..Len(stack) : stack[i].variable = name}
  IN IF matching = {} THEN Undefined
     ELSE stack[CHOOSE i \in matching : \A j \in matching : i <= j]

getCurrentNamespaceForIdentifier(stack, name) ==
  LET matching == {i \in 1..Len(stack) : stack[i].variable = name}
  IN IF matching = {} THEN Undefined
     ELSE stack[CHOOSE i \in matching : \A j \in matching : j <= i]

\* faulty variant: the mapped array is not assigned back
setNamespaceAsDynamic_Discarded(stack, name) == stack

setNamespaceAsDynamic(stack, name) ==
  [i \in 1..Len(stack) |->
     IF stack[i].name = name THEN [stack[i] EXCEPT !.dynamic = TRUE] ELSE stack[i]]

\* faulty variant: the default range of one frame is used
removeNamespaces_One(stack, range) ==
  IF Len(stack) > 0 THEN SubSeq(stack, 1, Len(stack) - 1) ELSE stack

removeNamespaces(stack, range) ==
  IF Len(stack) > 0 THEN SubSeq(stack, 1, Len(stack) - range) ELSE stack

\* property.name.text === 'namespace' && isStringLiteral(property.initializer)
IsNamespaceProperty(property) ==
  /\ property.kind = "assignment"
  /\ property.name = "namespace"
  /\ property.initializer.type = "string"

\* faulty variant: a plain else replaces `else if (argument === undefined)`
useTranslationsFrames_AnyNonLiteral(node) ==
  IF node.arg.type = "string" THEN <<Frame(node.arg.text, node.variable)>>
  ELSE <<Frame(EmptyString, node.variable)>>

\* frames pushed for `v = useTranslations(arg)`
useTranslationsFrames(node) ==
  IF node.arg.type = "string" THEN <<Frame(node.arg.text, node.variable)>>
  ELSE IF node.arg.type = "absent" THEN <<Frame(EmptyString, node.variable)>>
  ELSE << >>

\* frames pushed for `v = await getTranslations(arg)`
getTranslationsFrames(node) ==
  IF node.arg.type = "object"
  THEN [i \in 1..Len(node.arg.properties) |->
          IF IsNamespaceProperty(node.arg.properties[i])
          THEN Frame(node.arg.properties[i].initializer.text, node.variable)
          ELSE Frame(EmptyString, node.variable)]
  ELSE IF node.arg.type = "string" THEN <<Frame(node.arg.text, node.variable)>>
  ELSE IF node.arg.type = "absent" THEN <<Frame(EmptyString, node.variable)>>
  ELSE << >>

\* frames pushed for `[.., v, ..] = await Promise.all([.., getTranslations(arg), ..])`
promiseAllFrames(node) ==
  IF node.arg.type = "object"
  THEN LET matching == SelectSeq(node.arg.properties, IsNamespaceProperty)
       IN [i \in 1..Len(matching) |->
             Frame(matching[i].initializer.text, node.variable)]
  ELSE IF node.arg.type = "string" THEN <<Frame(node.arg.text, node.variable)>>
  ELSE IF node.arg.type = "absent" THEN <<Frame(EmptyString, node.variable)>>
  ELSE << >>

AcquiredFrames(node) ==
  IF node.kind # "acquire" THEN << >>
  ELSE IF node.form = "use" THEN useTranslationsFrames(node)
  ELSE IF node.form = "get" THEN getTranslationsFrames(node)
  ELSE promiseAllFrames(node)

FoundKey(key, path, namespaceName) ==
  [key |-> key, meta |-> [file |-> path, namespace |-> namespaceName]]

\* faulty variant: the last record of that name is taken
FindTrackedFunction_Last(registry, calledFunctionName) ==
  LET matching == {i \in 1..Len(registry) :
                     registry[i].functionName = calledFunctionName}
  IN IF matching = {} THEN Undefined
     ELSE registry[CHOOSE i \in matching : \A j \in matching : j <= i]

\* globalFunctionsWithTParam.find(f => f.functionName === calledFunctionName)
FindTrackedFunction(registry, calledFunctionName) ==
  LET matching == {i \in 1..Len(registry) :
                     registry[i].functionName = calledFunctionName}
  IN IF matching = {} THEN Undefined
     ELSE registry[CHOOSE i \in matching : \A j \in matching : i <= j]

KeysUnder(keysUsed, namespaceName, path) ==
  [i \in 1..Len(keysUsed) |->
     FoundKey(QualifiedKey(namespaceName, keysUsed[i]), path, namespaceName)]

\* calls to functions with a translator parameter
HelperCallKeys(registry, stack, node, path) ==
  IF ~(node.kind = "call" /\ node.shape = "direct") THEN << >>
  ELSE
    LET trackedFunction == FindTrackedFunction(registry, node.callee)
    IN IF trackedFunction = Undefined \/ node.arg.type = "absent" THEN << >>
       ELSE
         LET pattern1 ==
               IF /\ node.arg.type = "useTranslations"
                  /\ node.arg.arg.type = "string"
               THEN KeysUnder(trackedFunction.keysUsed, node.arg.arg.text, path)
               ELSE << >>
             namespace ==
               IF node.arg.type = "ident"
               THEN getCurrentNamespaceForIdentifier(stack, node.arg.name)
               ELSE Undefined
             pattern2 ==
               IF namespace # Undefined
               THEN KeysUnder(trackedFunction.keysUsed, namespace.name, path)
               ELSE << >>
         IN pattern1 \o pattern2

\* inline `useTranslations(ns)(key)` and `useTranslations(ns).method(key)`
InlineCallKeys(node, path) ==
  IF ~(node.kind = "inline" /\ node.shape = "method") THEN << >>
  ELSE
    IF node.keyArg.type = "string" /\ Truthy(node.keyArg.text)
    THEN IF node.nsArg.type = "string"
         THEN <<FoundKey(QualifiedKey(node.nsArg.text, node.keyArg.text), path,
                         node.nsArg.text)>>
         ELSE <<[key |-> node.keyArg.text, meta |-> [file |-> path]]>>
    ELSE << >>

\* the frame a `t(...)` / `t.method(...)` call resolves to
ResolvedNamespace(stack, node) ==
  IF node.kind = "call" /\ getCurrentNamespaces(stack, 1) # Null
  THEN getCurrentNamespaceForIdentifier(stack, node.callee)
  ELSE Undefined

\* `key` after the two translator-call blocks
TranslatorCallKey(stack, node) ==
  IF ResolvedNamespace(stack, node) # Undefined /\ node.arg.type = "string"
  THEN [name |-> node.arg.text, identifier |-> node.callee]
  ELSE Undefined

\* the stack after the two translator-call blocks
TranslatorCallNamespaces(stack, node) ==
  IF /\ ResolvedNamespace(stack, node) # Undefined
     /\ node.arg.type \in {"ident", "template"}
  THEN setNamespaceAsDynamic(stack, ResolvedNamespace(stack, node).name)
  ELSE stack

KeyEmission(stack, key, path) ==
  IF key = Undefined THEN << >>
  ELSE LET namespace == getCurrentNamespaceForIdentifier(stack, key.identifier)
           namespaceName == IF namespace # Undefined THEN namespace.name
                            ELSE EmptyString
       IN <<FoundKey(QualifiedKey(namespaceName, key.name), path, namespaceName)>>

\* visit(node) up to the recursion into the children
VisitNamespaces(stack, node) ==
  TranslatorCallNamespaces(stack \o AcquiredFrames(node), node)

VisitKeys(registry, stack, node, path) ==
  LET acquired == stack \o AcquiredFrames(node)
  IN HelperCallKeys(registry, acquired, node, path)
       \o InlineCallKeys(node, path)
       \o KeyEmission(TranslatorCallNamespaces(acquired, node),
                      TranslatorCallKey(acquired, node), path)

\* visit(node) after the recursion, for a function-like node
DynamicPlaceholders(stack, initialNamespacesLength, path) ==
  LET currentNamespaces == Last(stack, Len(stack) - initialNamespacesLength)
      flagged == SelectSeq(currentNamespaces, LAMBDA f : f.dynamic)
  IN [i \in 1..Len(flagged) |->
        [key |-> flagged[i].name,
         meta |-> [file |-> path, namespace |-> flagged[i].name, dynamic |-> TRUE]]]

\* ------------------------------------------------------------------------
\* The final sort of extract
\* ------------------------------------------------------------------------
\* faulty variant: the two results of the comparator are swapped
compareFn_Swapped(a, b) == IF StrGT(a.key, b.key) THEN -1 ELSE 1

compareFn(a, b) == IF StrGT(a.key, b.key) THEN 1 ELSE -1

\* insertion of x into a sorted sequence, placed by the comparator
RECURSIVE InsertBy(_, _)
InsertBy(sorted, x) ==
  IF sorted = << >> THEN <<x>>
  ELSE IF compareFn(x, Head(sorted)) < 0 THEN <<x>> \o sorted
       ELSE <<Head(sorted)>> \o InsertBy(Tail(sorted), x)

RECURSIVE sort(_)
sort(s) ==
  IF s = << >> THEN << >>
  ELSE InsertBy(sort(SubSeq(s, 1, Len(s) - 1)), s[Len(s)])

\* ------------------------------------------------------------------------
\* Inputs
\* ------------------------------------------------------------------------
RECURSIVE SeqsUpTo(_, _)
SeqsUpTo(S, n) ==
  IF n = 0 THEN {<< >>}
  ELSE LET shorter == SeqsUpTo(S, n - 1)
       IN shorter \cup {Append(s, x) : s \in {t \in shorter : Len(t) = n - 1}, x \in S}

FilesOver(S, n) == {f \in SeqsUpTo(S, n) : WellFormed(f)}

NsA == <<65>>
NsB == <<66>>
KeyA == <<97>>
KeyB == <<98>>

\* scoping, shadowing and dynamic keys in one file
ScopeNodes ==
  {FunctionNode, EndNode,
   Acquire("use", "t", StringLiteral(NsA)),
   Acquire("use", "t", Absent),
   Acquire("use", "u", StringLiteral(NsA)),
   Call("direct", "t", StringLiteral(KeyA)),
   Call("method", "t", StringLiteral(KeyB)),
   Call("direct", "t", Identifier("key")),
   Call("method", "t", TemplateExpression)}

ScopeInputs == {<<f>> : f \in FilesOver(ScopeNodes, MaxStmts)}

\* every acquisition form with an absent, non-literal and object argument
LocaleAndNamespace ==
  ObjectLiteral(<<ShorthandProperty("locale"),
                  PropertyAssignment("namespace", StringLiteral(NsA))>>)
NamespaceAndLocale ==
  ObjectLiteral(<<PropertyAssignment("namespace", StringLiteral(NsA)),
                  ShorthandProperty("locale")>>)

AcquireNodes ==
  {FunctionNode, EndNode,
   Acquire("use", "t", StringLiteral(NsB)),
   Call("direct", "t", StringLiteral(KeyA))}
  \cup {Acquire(form, "t", a) : form \in {"use", "get", "all"},
                               a \in {Absent, Identifier("ns")}}
  \cup {Acquire(form, "t", a) : form \in {"get", "all"},
                               a \in {LocaleAndNamespace, NamespaceAndLocale}}

AcquireInputs == {<<f>> : f \in FilesOver(AcquireNodes, MaxAcquireStmts)}

\* helper definitions of every shape and both call patterns, in one file
HelperShapeNodes ==
  {EndNode,
   ArrowDeclaration("s", "t", TRUE, "nested"),
   ArrowDeclaration("s", "t", TRUE, "call"),
   ArrowDeclaration("s", "t", FALSE, "nested"),
   Call("direct", "t", StringLiteral(KeyA)),
   Call("direct", "s", UseTranslationsCall(StringLiteral(NsA))),
   Call("direct", "s", UseTranslationsCall(Identifier("ns"))),
   Call("direct", "s", Identifier("t")),
   Acquire("use", "t", StringLiteral(NsB))}

HelperShapeInputs == {<<f>> : f \in FilesOver(HelperShapeNodes, MaxShapeStmts)}

\* helper definitions and call sites spread over several files
HelperNodes ==
  {EndNode,
   ArrowDeclaration("s", "t", TRUE, "nested"),
   Call("direct", "t", StringLiteral(KeyA)),
   Call("direct", "t", StringLiteral(KeyB)),
   Call("direct", "s", UseTranslationsCall(StringLiteral(NsA)))}

\* the ways of cutting a node sequence into at most k files
RECURSIVE Splits(_, _)
Splits(nodes, k) ==
  IF k = 0 THEN IF nodes = << >> THEN {<< >>} ELSE {}
  ELSE (IF nodes = << >> THEN {<< >>} ELSE {})
       \cup UNION {{<<SubSeq(nodes, 1, c)>> \o rest :
                       rest \in Splits(SubSeq(nodes, c + 1, Len(nodes)), k - 1)} :
                    c \in 0..Len(nodes)}

\* inline chained calls
InlineNodes ==
  {FunctionNode, EndNode,
   Inline("call", StringLiteral(NsA), StringLiteral(KeyA)),
   Inline("method", StringLiteral(NsA), StringLiteral(KeyA)),
   Inline("method", StringLiteral(NsB), StringLiteral(EmptyString)),
   Inline("method", Absent, StringLiteral(KeyB)),
   Inline("method", StringLiteral(NsA), Identifier("key"))}

InlineInputs == {<<f>> : f \in FilesOver(InlineNodes, MaxInlineStmts)}

Inputs == ScopeInputs \cup HelperShapeInputs

\* the registry is process-wide: it may hold the records of an earlier run
StaleRegistries ==
  {<< >>, <<[functionName |-> "s", paramName |-> "t", keysUsed |-> <<KeyB>>]>>}

\* ------------------------------------------------------------------------
\* extract
\* ------------------------------------------------------------------------
InitFrom(files) ==
  /\ filesPaths = files
  /\ globalFunctionsWithTParam \in StaleRegistries
  /\ pc = "start"
  /\ fileIdx = 1
  /\ pos = 1
  /\ namespaces = << >>
  /\ scopes = << >>
  /\ foundKeys = << >>
  /\ collected = << >>
  /\ result = << >>

InitWith(inputs) == \E files \in inputs : InitFrom(files)

\* every way of cutting a sequence of helper nodes into well-formed files
InitHelper ==
  \E nodes \in SeqsUpTo(HelperNodes, MaxHelperStmts) :
    \E files \in Splits(nodes, MaxFiles) :
      /\ \A i \in 1..Len(files) : WellFormed(files[i])
      /\ InitFrom(files)

Init == InitWith(Inputs)

\* globalFunctionsWithTParam.length = 0
Reset ==
  /\ pc = "start"
  /\ globalFunctionsWithTParam' = << >>
  /\ pc' = "pass1"
  /\ fileIdx' = 1
  /\ UNCHANGED <<filesPaths, pos, namespaces, scopes, foundKeys, collected, result>>

\* one iteration of filesPaths.forEach(collectFunctionsWithTParam)
Collect ==
  /\ pc = "pass1"
  /\ fileIdx <= Len(filesPaths)
  /\ globalFunctionsWithTParam' =
       collectFunctionsWithTParam(globalFunctionsWithTParam, filesPaths[fileIdx])
  /\ fileIdx' = fileIdx + 1
  /\ UNCHANGED <<filesPaths, pc, pos, namespaces, scopes, foundKeys, collected, result>>

\* faulty variant: Pass 2 starts once the first file has been collected
Pass1Complete_FirstFile(i, files) == i > 1

\* the forEach of Pass 1 has returned
Pass1Complete(i, files) == i > Len(files)

\* filesPaths.flatMap(getKeys) begins
StartPass2 ==
  /\ pc = "pass1"
  /\ Pass1Complete(fileIdx, filesPaths)
  /\ pc' = "pass2"
  /\ fileIdx' = 1
  /\ pos' = 1
  /\ namespaces' = << >>
  /\ foundKeys' = << >>
  /\ scopes' = << >>
  /\ UNCHANGED <<filesPaths, globalFunctionsWithTParam, collected, result>>

InFile == pc = "pass2" /\ fileIdx <= Len(filesPaths)
CurrentFile == filesPaths[fileIdx]
AtNode == InFile /\ pos <= Len(CurrentFile)
CurrentNode == CurrentFile[pos]

\* visit(node) from its entry to the recursion into its children.  A scope
\* record is the activation of visit for a function-like node: its local
\* initialNamespacesLength, and (for the statement of the scope invariant
\* only) the stack as it was on entry.
VisitNode ==
  /\ AtNode
  /\ CurrentNode.kind # "end"
  /\ namespaces' = VisitNamespaces(namespaces, CurrentNode)
  /\ foundKeys' = foundKeys \o
       VisitKeys(globalFunctionsWithTParam, namespaces, CurrentNode, fileIdx)
  /\ scopes' = IF IsFunctionLike(CurrentNode)
               THEN Append(scopes, [initialNamespacesLength |-> Len(namespaces),
                                    entry |-> namespaces])
               ELSE scopes
  /\ pos' = pos + 1
  /\ UNCHANGED <<filesPaths, pc, globalFunctionsWithTParam, fileIdx, collected, result>>

AtFunctionEnd ==
  /\ InFile
  /\ scopes # << >>
  /\ (pos <= Len(CurrentFile) => CurrentNode.kind = "end")

\* visit(node) of a function-like node after the recursion into its children
ExitFunction ==
  /\ AtFunctionEnd
  /\ LET initialNamespacesLength == scopes[Len(scopes)].initialNamespacesLength
     IN IF Len(namespaces) > initialNamespacesLength
        THEN /\ foundKeys' = foundKeys \o
                  DynamicPlaceholders(namespaces, initialNamespacesLength, fileIdx)
             /\ namespaces' = removeNamespaces(namespaces,
                                Len(namespaces) - initialNamespacesLength)
        ELSE UNCHANGED <<foundKeys, namespaces>>
  /\ scopes' = SubSeq(scopes, 1, Len(scopes) - 1)
  /\ pos' = IF pos <= Len(CurrentFile) THEN pos + 1 ELSE pos
  /\ UNCHANGED <<filesPaths, pc, globalFunctionsWithTParam, fileIdx, collected, result>>

\* getKeys(path) returns foundKeys; flatMap moves on to the next file
FileDone ==
  /\ InFile
  /\ pos > Len(CurrentFile)
  /\ scopes = << >>
  /\ collected' = collected \o foundKeys
  /\ fileIdx' = fileIdx + 1
  /\ pos' = 1
  /\ namespaces' = << >>
  /\ foundKeys' = << >>
  /\ UNCHANGED <<filesPaths, pc, globalFunctionsWithTParam, scopes, result>>

\* .sort((a, b) => a.key > b.key ? 1 : -1) and return
Sort ==
  /\ pc = "pass2"
  /\ fileIdx > Len(filesPaths)
  /\ result' = sort(collected)
  /\ pc' = "done"
  /\ UNCHANGED <<filesPaths, globalFunctionsWithTParam, fileIdx, pos, namespaces,
                 scopes, foundKeys, collected>>

Next == Reset \/ Collect \/ StartPass2 \/ VisitNode \/ ExitFunction \/ FileDone \/ Sort

Spec == Init /\ [][Next]_vars

SpecAcquire == InitWith(AcquireInputs) /\ [][Next]_vars

SpecHelper == InitHelper /\ [][Next]_vars

SpecInline == InitWith(InlineInputs) /\ [][Next]_vars

\* ------------------------------------------------------------------------
\* Lexical scoping, stated on the file and not on the namespace stack
\* ------------------------------------------------------------------------
\* node q binds identifier v: a translator declaration, or the first
\* parameter of an arrow function
Binds(file, q, v) ==
  \/ file[q].kind = "acquire" /\ file[q].variable = v
  \/ file[q].kind = "arrow" /\ file[q].param = v

\* function nesting depth of the scope the binding of node q belongs to
BindingDepth(file, q) ==
  IF file[q].kind = "arrow" THEN DepthAfter(file, q) ELSE DepthAfter(file, q - 1)

\* the binding made at q is in scope at node p
InScope(file, q, p) ==
  /\ q < p
  /\ \A r \in q..(p - 1) : DepthAfter(file, r) >= BindingDepth(file, q)

\* the declaration that identifier v refers to at node p (0: none)
ActiveBinding(file, p, v) ==
  LET visible == {q \in 1..Len(file) : Binds(file, q, v) /\ InScope(file, q, p)}
  IN IF visible = {} THEN 0 ELSE CHOOSE q \in visible : \A r \in visible : r <= q

\* node q is `const v = useTranslations('NS')` or `const v = useTranslations()`
IsUseTranslationsBinding(node) ==
  /\ node.kind = "acquire"
  /\ node.form = "use"
  /\ node.arg.type \in {"string", "absent"}

BoundNamespace(node) == IF node.arg.type = "string" THEN node.arg.text ELSE EmptyString

\* the walk is at a call `v('k')` / `v.method('k')` whose v refers to a
\* useTranslations binding with a literal or no namespace
AtDirectLiteralCall ==
  /\ AtNode
  /\ CurrentNode.kind = "call"
  /\ CurrentNode.arg.type = "string"
  /\ ActiveBinding(CurrentFile, pos, CurrentNode.callee) # 0
  /\ IsUseTranslationsBinding(
       CurrentFile[ActiveBinding(CurrentFile, pos, CurrentNode.callee)])

ExpectedDirectKey ==
  LET NS == BoundNamespace(
              CurrentFile[ActiveBinding(CurrentFile, pos, CurrentNode.callee)])
      k == CurrentNode.arg.text
  IN [key |-> IF NS = EmptyString THEN k ELSE NS \o <<46>> \o k,
      meta |-> [file |-> fileIdx, namespace |-> NS]]

\* C1: a call v('k') or v.method('k') made while v refers to
\* `const v = useTranslations(NS)` (NS a string literal or absent) emits exactly
\* one record: key NS.k, or the bare k when the namespace is empty, with
\* meta.namespace = NS and no dynamic flag.
C1_DirectKeyExtraction ==
  [][AtDirectLiteralCall => foundKeys' = Append(foundKeys, ExpectedDirectKey)]_vars

\* a method call under an argument-less useTranslations() has just emitted the
\* bare key
C1_Witness ==
  /\ InFile
  /\ pos > 1
  /\ pos - 1 <= Len(CurrentFile)
  /\ CurrentFile[pos - 1].kind = "call"
  /\ CurrentFile[pos - 1].shape = "method"
  /\ CurrentFile[pos - 1].arg.type = "string"
  /\ ActiveBinding(CurrentFile, pos - 1, "t") # 0
  /\ CurrentFile[ActiveBinding(CurrentFile, pos - 1, "t")] = Acquire("use", "t", Absent)
  /\ foundKeys # << >>
  /\ foundKeys[Len(foundKeys)] =
       [key |-> CurrentFile[pos - 1].arg.text,
        meta |-> [file |-> fileIdx, namespace |-> EmptyString]]

\* ------------------------------------------------------------------------
\* Shadowing
\* ------------------------------------------------------------------------
HasFrame(v) == \E i \in 1..Len(namespaces) : namespaces[i].variable = v

\* name of the most recently pushed frame bound to v
MostRecentName(v) ==
  LET i == CHOOSE i \in 1..Len(namespaces) :
             /\ namespaces[i].variable = v
             /\ \A j \in (i + 1)..Len(namespaces) : namespaces[j].variable # v
  IN namespaces[i].name

Dotted(NS, k) == IF NS = EmptyString THEN k ELSE NS \o <<46>> \o k

AtLiteralTranslatorCall ==
  /\ AtNode
  /\ CurrentNode.kind = "call"
  /\ CurrentNode.arg.type = "string"
  /\ HasFrame(CurrentNode.callee)

AtNonLiteralTranslatorCall ==
  /\ AtNode
  /\ CurrentNode.kind = "call"
  /\ CurrentNode.arg.type \in {"ident", "template"}
  /\ HasFrame(CurrentNode.callee)

AtHelperCallWithTranslator ==
  /\ AtNode
  /\ CurrentNode.kind = "call"
  /\ CurrentNode.shape = "direct"
  /\ CurrentNode.arg.type = "ident"
  /\ HasFrame(CurrentNode.arg.name)
  /\ \E i \in 1..Len(globalFunctionsWithTParam) :
        globalFunctionsWithTParam[i].functionName = CurrentNode.callee

\* C4: wherever identifier v is used as the translator (called with a
\* literal key, called with a non-literal key, or passed to a registered
\* helper), the namespace used is the name of the most recently pushed frame
\* whose variable is v.
C4_Shadowing ==
  /\ [][AtLiteralTranslatorCall =>
          /\ Len(foundKeys') = Len(foundKeys) + 1
          /\ foundKeys'[Len(foundKeys')].key =
               Dotted(MostRecentName(CurrentNode.callee), CurrentNode.arg.text)
          /\ foundKeys'[Len(foundKeys')].meta.namespace =
               MostRecentName(CurrentNode.callee)]_vars
  /\ [][AtNonLiteralTranslatorCall =>
          \A i \in 1..Len(namespaces) :
             namespaces'[i].dynamic =
               (namespaces[i].dynamic
                  \/ namespaces[i].name = MostRecentName(CurrentNode.callee))]_vars
  /\ [][AtHelperCallWithTranslator =>
          /\ Len(foundKeys') > Len(foundKeys)
          /\ \A i \in (Len(foundKeys) + 1)..Len(foundKeys') :
               foundKeys'[i].meta.namespace = MostRecentName(CurrentNode.arg.name)]_vars

\* inside a nested function that re-binds t, a call of t has just emitted a key
\* under the inner namespace while the outer frame of t is still on the stack
C4_Witness ==
  /\ InFile
  /\ scopes # << >>
  /\ pos > 1
  /\ pos - 1 <= Len(CurrentFile)
  /\ CurrentFile[pos - 1].kind = "call"
  /\ CurrentFile[pos - 1].arg.type = "string"
  /\ \E i, j \in 1..Len(namespaces) :
        /\ i <= scopes[Len(scopes)].initialNamespacesLength
        /\ scopes[Len(scopes)].initialNamespacesLength < j
        /\ namespaces[i].variable = CurrentFile[pos - 1].callee
        /\ namespaces[j].variable = CurrentFile[pos - 1].callee
        /\ namespaces[i].name # namespaces[j].name
        /\ \A l \in (j + 1)..Len(namespaces) :
              namespaces[l].variable # CurrentFile[pos - 1].callee
        /\ foundKeys # << >>
        /\ foundKeys[Len(foundKeys)].meta.namespace = namespaces[j].name

\* ------------------------------------------------------------------------
\* Dynamic keys
\* ------------------------------------------------------------------------
\* node p of the file calls a translator with an identifier or an interpolated
\* template, and the translator refers to `const t = useTranslations('NS')`
IsDynamicCallSite(file, p) ==
  /\ file[p].kind = "call"
  /\ file[p].arg.type \in {"ident", "template"}
  /\ ActiveBinding(file, p, file[p].callee) # 0
  /\ LET binding == file[ActiveBinding(file, p, file[p].callee)]
     IN /\ binding.kind = "acquire"
        /\ binding.form = "use"
        /\ binding.arg.type = "string"

DynamicCallNamespace(file, p) == file[ActiveBinding(file, p, file[p].callee)].arg.text

\* the binding the call site refers to is declared inside a function-like node
BoundInsideFunction(file, p) ==
  BindingDepth(file, ActiveBinding(file, p, file[p].callee)) >= 1

HasPlaceholder(records, NS) ==
  \E i \in 1..Len(records) :
     /\ records[i].key = NS
     /\ "dynamic" \in DOMAIN records[i].meta
     /\ records[i].meta.dynamic = TRUE
     /\ records[i].meta.namespace = NS

\* C5 as stated: every dynamic call site under `const t = useTranslations('NS')`
\* yields a placeholder record {key: NS, dynamic: true} in the result.
C5_AsStated ==
  pc = "done" =>
    \A f \in 1..Len(filesPaths) : \A p \in 1..Len(filesPaths[f]) :
       IsDynamicCallSite(filesPaths[f], p) =>
          HasPlaceholder(result, DynamicCallNamespace(filesPaths[f], p))

\* C5 (amended): when the binding `const t = useTranslations('NS')` is made
\* inside a function-like node, a call of t with an identifier or template
\* argument yields a placeholder record {key: NS, dynamic: true} in the result;
\* and the call site itself emits no record (t not being the name of a
\* registered helper function).
C5_DynamicDetection ==
  /\ [](pc = "done" =>
          \A f \in 1..Len(filesPaths) : \A p \in 1..Len(filesPaths[f]) :
             (IsDynamicCallSite(filesPaths[f], p) /\ BoundInsideFunction(filesPaths[f], p))
                => HasPlaceholder(result, DynamicCallNamespace(filesPaths[f], p)))
  /\ [][(AtNode /\ IsDynamicCallSite(CurrentFile, pos)) => foundKeys' = foundKeys]_vars

\* extract has returned a placeholder for a dynamic call made inside a function
C5_Witness ==
  /\ pc = "done"
  /\ \E f \in 1..Len(filesPaths) : \E p \in 1..Len(filesPaths[f]) :
        /\ IsDynamicCallSite(filesPaths[f], p)
        /\ BoundInsideFunction(filesPaths[f], p)
        /\ HasPlaceholder(result, DynamicCallNamespace(filesPaths[f], p))

\* ------------------------------------------------------------------------
\* Scope lifecycle
\* ------------------------------------------------------------------------
NameAndVariable(stack) ==
  [i \in 1..Len(stack) |-> [name |-> stack[i].name, variable |-> stack[i].variable]]

\* some declaration of v is in scope at node p of the file
HasVisibleAcquisition(file, p, v) ==
  \E q \in 1..Len(file) :
     file[q].kind = "acquire" /\ file[q].variable = v /\ InScope(file, q, p)

\* C9: when the visit of a function-like node returns, the namespace stack has
\* the frames (name and variable) it had when that visit began; and a frame
\* on the stack always belongs to a declaration that is in scope at the node
\* being visited.
C9_ScopeLifecycle ==
  /\ [][AtFunctionEnd =>
          NameAndVariable(namespaces') = NameAndVariable(scopes[Len(scopes)].entry)]_vars
  /\ [](AtNode =>
          \A i \in 1..Len(namespaces) :
             HasVisibleAcquisition(CurrentFile, pos, namespaces[i].variable))

\* a function that declared a translator has been left: its frame is gone
\* while the frame of an enclosing declaration remains
C9_Witness ==
  /\ InFile
  /\ pos > 1
  /\ pos - 1 <= Len(CurrentFile)
  /\ CurrentFile[pos - 1].kind = "end"
  /\ Len(namespaces) >= 1
  /\ \E q \in 1..(pos - 1) :
        /\ CurrentFile[q].kind = "acquire"
        /\ AcquiredFrames(CurrentFile[q]) # << >>
        /\ ~InScope(CurrentFile, q, pos)

\* ------------------------------------------------------------------------
\* Order of the result
\* ------------------------------------------------------------------------
\* a <= b in the ordinal (code unit) order: a is a prefix of b, or a has the
\* smaller code unit at the first position where they differ
OrdinalLeq(a, b) ==
  \/ /\ Len(a) <= Len(b)
     /\ \A i \in 1..Len(a) : a[i] = b[i]
  \/ \E d \in 1..Len(a) :
        /\ d <= Len(b)
        /\ a[d] < b[d]
        /\ \A i \in 1..(d - 1) : a[i] = b[i]

\* C2: the sequence returned by extract is sorted ascending by key in ordinal
\* order, also when several records carry the same key.
C2_ResultSorted ==
  pc = "done" =>
    \A i, j \in 1..Len(result) : i < j => OrdinalLeq(result[i].key, result[j].key)

\* extract has returned at least three records, two of them with the same key,
\* in an order that differs from the order of emission
C2_Witness ==
  /\ pc = "done"
  /\ Len(result) >= 3
  /\ result # collected
  /\ \E i, j \in 1..Len(result) : i < j /\ result[i].key = result[j].key
  /\ \E i, j \in 1..Len(result) : result[i].key # result[j].key

\* ------------------------------------------------------------------------
\* The two passes
\* ------------------------------------------------------------------------
\* the registry built by collecting files 1..n in order
RECURSIVE RegistryOfFiles(_, _)
RegistryOfFiles(files, n) ==
  IF n = 0 THEN << >>
  ELSE RegistryOfFiles(files, n - 1) \o CollectFrom(files[n], 1)

\* node p is a call `name(useTranslations('NS'))`
IsInlineHelperCall(node) ==
  /\ node.kind = "call"
  /\ node.shape = "direct"
  /\ node.arg.type = "useTranslations"
  /\ node.arg.arg.type = "string"

DefinesHelper(file, name) ==
  \E q \in 1..Len(file) : TrackedAt(file, q) # << >> /\ file[q].name = name

\* C3: Pass 1 has run over every file before Pass 2 visits any node, the
\* registry does not change during Pass 2, and so a helper defined in a later
\* file is resolved at a call site of an earlier file.
C3_PassOrder ==
  /\ [](pc \in {"pass2", "done"} =>
          globalFunctionsWithTParam = RegistryOfFiles(filesPaths, Len(filesPaths)))
  /\ [][pc = "pass2" => globalFunctionsWithTParam' = globalFunctionsWithTParam]_vars
  /\ [](pc = "done" =>
          \A f, g \in 1..Len(filesPaths) : \A p \in 1..Len(filesPaths[f]) :
             (/\ f < g
              /\ IsInlineHelperCall(filesPaths[f][p])
              /\ DefinesHelper(filesPaths[g], filesPaths[f][p].callee))
             => \E i \in 1..Len(result) :
                   /\ result[i].meta.file = f
                   /\ result[i].meta.namespace = filesPaths[f][p].arg.arg.text)

\* the first file only calls a helper, the second file only defines it, and
\* the result holds a key found in the first file
C3_Witness ==
  /\ pc = "done"
  /\ Len(filesPaths) = 2
  /\ ~DefinesHelper(filesPaths[1], "s")
  /\ DefinesHelper(filesPaths[2], "s")
  /\ \E p \in 1..Len(filesPaths[1]) : IsInlineHelperCall(filesPaths[1][p])
  /\ \E i \in 1..Len(result) : result[i].meta.file = 1

\* ------------------------------------------------------------------------
\* Helpers registered twice
\* ------------------------------------------------------------------------
RegisteredAs(name) ==
  {i \in 1..Len(globalFunctionsWithTParam) :
     globalFunctionsWithTParam[i].functionName = name}

AtAmbiguousHelperCall ==
  /\ AtNode
  /\ IsInlineHelperCall(CurrentNode)
  /\ \E i, j \in RegisteredAs(CurrentNode.callee) :
        globalFunctionsWithTParam[i].keysUsed # globalFunctionsWithTParam[j].keysUsed

EmittedKeyNames(before, after) ==
  [i \in 1..(Len(after) - Len(before)) |-> after[Len(before) + i].key]

KeysOfRecord(r, NS) == [i \in 1..Len(r.keysUsed) |-> Dotted(NS, r.keysUsed[i])]

\* C7 as stated: a call of a helper name registered more than once is resolved
\* with the keysUsed of the record registered last.
C7_AsStated ==
  [][AtAmbiguousHelperCall =>
       LET last == CHOOSE i \in RegisteredAs(CurrentNode.callee) :
                     \A j \in RegisteredAs(CurrentNode.callee) : j <= i
       IN EmittedKeyNames(foundKeys, foundKeys') =
            KeysOfRecord(globalFunctionsWithTParam[last], CurrentNode.arg.arg.text)]_vars

\* C7 (amended): a call of a helper name registered more than once is resolved
\* with the keysUsed of the record registered first.
C7_FirstRegisteredWins ==
  [][AtAmbiguousHelperCall =>
       LET first == CHOOSE i \in RegisteredAs(CurrentNode.callee) :
                      \A j \in RegisteredAs(CurrentNode.callee) : i <= j
       IN EmittedKeyNames(foundKeys, foundKeys') =
            KeysOfRecord(globalFunctionsWithTParam[first], CurrentNode.arg.arg.text)]_vars

\* two files define helper s with different keys, and a call of s has just
\* emitted the keys of the first definition
C7_Witness ==
  /\ InFile
  /\ pos > 1
  /\ pos - 1 <= Len(CurrentFile)
  /\ IsInlineHelperCall(CurrentFile[pos - 1])
  /\ Len(filesPaths) = 2
  /\ DefinesHelper(filesPaths[1], "s")
  /\ DefinesHelper(filesPaths[2], "s")
  /\ Len(globalFunctionsWithTParam) >= 2
  /\ globalFunctionsWithTParam[1].keysUsed #
       globalFunctionsWithTParam[Len(globalFunctionsWithTParam)].keysUsed
  /\ foundKeys # << >>
  /\ foundKeys[Len(foundKeys)].key =
       Dotted(CurrentFile[pos - 1].arg.arg.text,
              globalFunctionsWithTParam[1].keysUsed[Len(globalFunctionsWithTParam[1].keysUsed)])

\* ------------------------------------------------------------------------
\* Helper-function indirection
\* ------------------------------------------------------------------------
\* the literal keys that the body of the arrow function at q passes to its
\* first parameter
RECURSIVE LiteralKeysPassed(_, _, _, _)
LiteralKeysPassed(file, lo, hi, param) ==
  IF lo > hi THEN {}
  ELSE (IF /\ file[lo].kind = "call"
           /\ file[lo].shape = "direct"
           /\ file[lo].callee = param
           /\ file[lo].arg.type = "string"
        THEN {file[lo].arg.text} ELSE {})
       \cup LiteralKeysPassed(file, lo + 1, hi, param)

HelperBodyKeys(file, q) ==
  LiteralKeysPassed(file, q + 1, BodyEnd(file, q) - 1, file[q].param)

HasKey(records, k) == \E i \in 1..Len(records) : records[i].key = k

\* C6 as stated (granting the helper a type annotation on its parameter): a
\* call `helper(useTranslations('NS'))` yields a record NS.k for every literal
\* key k that the body of the helper passes to its translator parameter.
C6_AsStated ==
  pc = "done" =>
    \A f, g \in 1..Len(filesPaths) :
      \A p \in 1..Len(filesPaths[f]) : \A q \in 1..Len(filesPaths[g]) :
        (/\ IsInlineHelperCall(filesPaths[f][p])
         /\ filesPaths[g][q].kind = "arrow"
         /\ filesPaths[g][q].typed
         /\ filesPaths[g][q].name = filesPaths[f][p].callee)
        => \A k \in HelperBodyKeys(filesPaths[g], q) :
              HasKey(result, Dotted(filesPaths[f][p].arg.arg.text, k))

\* ------------------------------------------------------------------------
\* Inline chained calls
\* ------------------------------------------------------------------------
\* C8 as stated: every statement useTranslations('NS')('k') and every statement
\* useTranslations('NS').method('k'), with non-empty literals, yields NS.k.
C8_AsStated ==
  pc = "done" =>
    \A f \in 1..Len(filesPaths) : \A p \in 1..Len(filesPaths[f]) :
       (/\ filesPaths[f][p].kind = "inline"
        /\ filesPaths[f][p].nsArg.type = "string"
        /\ filesPaths[f][p].keyArg.type = "string"
        /\ filesPaths[f][p].nsArg.text # EmptyString
        /\ filesPaths[f][p].keyArg.text # EmptyString)
       => HasKey(result, Dotted(filesPaths[f][p].nsArg.text, filesPaths[f][p].keyArg.text))

\* ------------------------------------------------------------------------
\* Acquisition without a literal namespace
\* ------------------------------------------------------------------------
AtAcquisition(argTypes) ==
  /\ AtNode
  /\ CurrentNode.kind = "acquire"
  /\ CurrentNode.arg.type \in argTypes

EmptyFrame(v) == [name |-> EmptyString, variable |-> v, dynamic |-> FALSE]

\* C10 as stated: in every acquisition form, an absent or non-literal argument
\* pushes a frame with the empty namespace and variable v.
C10_AsStated ==
  [][AtAcquisition({"absent", "ident"}) =>
       namespaces' = Append(namespaces, EmptyFrame(CurrentNode.variable))]_vars

\* the walk is at v('k') and v refers to an acquisition without an argument
AtCallUnderBareAcquisition ==
  /\ AtNode
  /\ CurrentNode.kind = "call"
  /\ CurrentNode.arg.type = "string"
  /\ ActiveBinding(CurrentFile, pos, CurrentNode.callee) # 0
  /\ LET binding == CurrentFile[ActiveBinding(CurrentFile, pos, CurrentNode.callee)]
     IN binding.kind = "acquire" /\ binding.arg.type = "absent"

\* C10 (amended): in every acquisition form, an absent argument pushes a frame
\* with the empty namespace and variable v, so that a later v('k') emits the
\* bare key k; an argument that is an identifier pushes no frame.
C10_GracefulDegradation ==
  /\ [][AtAcquisition({"absent"}) =>
          namespaces' = Append(namespaces, EmptyFrame(CurrentNode.variable))]_vars
  /\ [][AtAcquisition({"ident"}) => namespaces' = namespaces]_vars
  /\ [][AtCallUnderBareAcquisition =>
          foundKeys' = Append(foundKeys,
             [key |-> CurrentNode.arg.text,
              meta |-> [file |-> fileIdx, namespace |-> EmptyString]])]_vars

\* under a literal outer binding, a Promise.all acquisition without an argument
\* was made and the following call has emitted the bare key
C10_Witness ==
  /\ InFile
  /\ pos > 2
  /\ pos - 1 <= Len(CurrentFile)
  /\ CurrentFile[pos - 1].kind = "call"
  /\ CurrentFile[pos - 2] = Acquire("all", "t", Absent)
  /\ Len(namespaces) >= 2
  /\ namespaces[1].name # EmptyString
  /\ foundKeys # << >>
  /\ foundKeys[Len(foundKeys)].key = CurrentFile[pos - 1].arg.text

\* ------------------------------------------------------------------------
\* Acquisition with an object-literal argument
\* ------------------------------------------------------------------------
\* the node is `v = await getTranslations({ ... })`
IsObjectAcquisition(node) ==
  /\ node.kind = "acquire"
  /\ node.form = "get"
  /\ node.arg.type = "object"

\* the string-literal values of the properties named `namespace`, in order
RECURSIVE NamespaceLiterals(_)
NamespaceLiterals(properties) ==
  IF properties = << >> THEN << >>
  ELSE (IF /\ Head(properties).kind = "assignment"
           /\ Head(properties).name = "namespace"
           /\ Head(properties).initializer.type = "string"
        THEN <<Head(properties).initializer.text>> ELSE << >>)
       \o NamespaceLiterals(Tail(properties))

\* node p calls v('k') and v refers to `v = await getTranslations({ ... })`
\* whose object holds exactly one literal `namespace` property
IsCallUnderObjectAcquisition(file, p) ==
  /\ file[p].kind = "call"
  /\ file[p].arg.type = "string"
  /\ ActiveBinding(file, p, file[p].callee) # 0
  /\ IsObjectAcquisition(file[ActiveBinding(file, p, file[p].callee)])
  /\ Len(NamespaceLiterals(
           file[ActiveBinding(file, p, file[p].callee)].arg.properties)) = 1

ObjectNamespace(file, p) ==
  NamespaceLiterals(file[ActiveBinding(file, p, file[p].callee)].arg.properties)[1]

\* C11 as stated, in full: `v = await getTranslations({ ... })` pushes exactly
\* one frame per property named `namespace` with a string-literal value and
\* none for any other property; hence a later t('k') yields NS.k.
C11_AsStated ==
  /\ [][(AtNode /\ IsObjectAcquisition(CurrentNode)) =>
          LET names == NamespaceLiterals(CurrentNode.arg.properties)
          IN namespaces' = namespaces \o
               [i \in 1..Len(names) |->
                  [name |-> names[i], variable |-> CurrentNode.variable,
                   dynamic |-> FALSE]]]_vars
  /\ [](pc = "done" =>
          \A f \in 1..Len(filesPaths) : \A p \in 1..Len(filesPaths[f]) :
             IsCallUnderObjectAcquisition(filesPaths[f], p) =>
                HasKey(result, Dotted(ObjectNamespace(filesPaths[f], p),
                                      filesPaths[f][p].arg.text)))

\* C11 as stated, its consequence on the result: for
\* `const t = await getTranslations({ locale, namespace: 'NS' })` a later
\* t('k') yields NS.k, whatever the order of the properties in the object.
C11_KeyWhateverTheOrder ==
  pc = "done" =>
    \A f \in 1..Len(filesPaths) : \A p \in 1..Len(filesPaths[f]) :
       IsCallUnderObjectAcquisition(filesPaths[f], p) =>
          HasKey(result, Dotted(ObjectNamespace(filesPaths[f], p),
                                filesPaths[f][p].arg.text))

====
